---- MODULE Spec2Model ----
(***************************************************************************)
(* Model of python-dlogg-driver: the protocol codec of                     *)
(* dlogg_driver/definitions.py (address encoding, header and sensor frame  *)
(* decoding, checksums) and the command transceiver DLoggDevice of         *)
(* dlogg_driver/device.py.                                                 *)
(*                                                                         *)
(* Python values are modelled as follows: a bytearray or list of ints is a *)
(* sequence of numbers 0..255 (1-based here, 0-based in the source); an    *)
(* object is a record of its attributes; a call that may raise returns a   *)
(* record whose field err is "none" or the name of the exception raised.   *)
(***************************************************************************)
EXTENDS Integers, Sequences, FiniteSets, TLC

VARIABLES
    serial,   \* self._serial: "unopened", "open" or "closed"
    io,       \* what was done on the serial channel, in order
    pc,       \* position of the script using the device: "new", "body", "done"
    call,     \* the last DLoggDevice method called, with its outcome
    nops,     \* number of method calls made inside the with block
    fn,       \* codec specifications: the function that was applied
    arg,      \* codec specifications: its input
    res       \* codec specifications: its result

vars == <<serial, io, pc, call, nops, fn, arg, res>>

devVars == <<serial, io, pc, call, nops>>

codecVars == <<fn, arg, res>>

(***************************************************************************)
(* Integer arithmetic of the source: &, ^, <<, >> on Python ints.          *)
(***************************************************************************)
RECURSIVE BitAnd(_, _)
\* a & b for a >= 0, b >= 0
BitAnd(a, b) ==
    IF a = 0 \/ b = 0 THEN 0
    ELSE (a % 2) * (b % 2) + 2 * BitAnd(a \div 2, b \div 2)

RECURSIVE BitXor(_, _)
\* a ^ b for a >= 0, b >= 0
BitXor(a, b) ==
    IF a = 0 THEN b
    ELSE IF b = 0 THEN a
    ELSE ((a + b) % 2) + 2 * BitXor(a \div 2, b \div 2)

\* 1 << n
Pow2(n) == 2^n

\* a << n
Shl(a, n) == a * Pow2(n)

\* a >> n (floor, as in Python)
Shr(a, n) == a \div Pow2(n)

\* (w & m) >> lo for a possibly negative Python int w and the mask m of bits
\* lo..hi-1 (m = 2^hi - 2^lo, hi <= 16): Python's & acts on the two's
\* complement of w, whose low 16 bits are w % 65536
Bits(w, lo, hi) == ((w % 65536) \div Pow2(lo)) % Pow2(hi - lo)

RECURSIVE SumTo(_, _)
\* s[0] + ... + s[n-1]
SumTo(s, n) == IF n = 0 THEN 0 ELSE s[n] + SumTo(s, n - 1)

\* sum(bytes)
SumSeq(s) == SumTo(s, Len(s))

\* s[a:b] of the source (0-based, b exclusive, clipped to the length)
Slice(s, a, b) ==
    LET hi == IF b < Len(s) THEN b ELSE Len(s)
    IN  IF a >= hi THEN <<>> ELSE SubSeq(s, a + 1, hi)

(***************************************************************************)
(* definitions.py: command opcodes, modes, types.                          *)
(***************************************************************************)
GET_MODE == 129

GET_FIRMWARE_VERSION == 130

GET_LOGGING_CRITERION == 149

SET_LOGGING_CRITERION == 150

GET_HEADER == 170

GET_CURRENT_DATA == 171

GET_DATA_RANGE == 172

END_READ == 173

CLEAR_MEMORY == 175

\* Mode(x) raises ValueError unless x is one of these
ModeValues == {162, 168, 209, 220}

ONE_DL == 168

\* Type(x) raises ValueError unless x is one of these
TypeValues == {162, 163, 168, 209}

(***************************************************************************)
(* OneDlAddress.  The constructor dispatches on isinstance(addr, int): the *)
(* two branches are the two operators below.                               *)
(***************************************************************************)
OneDlAddress_int_NoMask(addr) ==
    [array   |-> << BitAnd(Shl(addr, 6), 255),
                    BitAnd(Shr(addr, 1), 255),
                    BitAnd(Shr(addr, 9), 255) >>,
     integer |-> addr]

OneDlAddress_int(addr) ==
    [array   |-> << BitAnd(Shl(addr, 6), 255),
                    BitAnd(Shr(addr, 1), 254),
                    BitAnd(Shr(addr, 9), 255) >>,
     integer |-> addr]

OneDlAddress_array(addr) ==
    [array   |-> addr,
     integer |-> Shr(addr[1], 6) + Shl(addr[2], 1) + Shl(addr[3], 9)]

\* bytearray([0xFF, 0xFF, 0xFF])
Sentinel == <<255, 255, 255>>

calc_length_NoWrap(start, end) ==
    IF end.array = start.array /\ start.array = Sentinel THEN 0
    ELSE end.integer - start.integer + 1

calc_length_NoSentinel(start, end) ==
    IF end.integer >= start.integer THEN end.integer - start.integer + 1
    ELSE end.integer - start.integer + 8192 + 1

calc_length(start, end) ==
    IF end.array = start.array /\ start.array = Sentinel THEN 0
    ELSE IF end.integer >= start.integer THEN end.integer - start.integer + 1
    ELSE end.integer - start.integer + 8192 + 1

(***************************************************************************)
(* OneDlHeader: the 13-byte memory header.                                 *)
(***************************************************************************)
\* unpack("<I", b + bytearray([0]))[0] for three bytes b
Unpack24(b) == b[1] + 256 * b[2] + 65536 * b[3]

OneDlHeader_NoCheck(raw_data) ==
    [err         |-> "none",
     identifier  |-> raw_data[1],
     version     |-> raw_data[2],
     timestamp_s |-> Unpack24(Slice(raw_data, 2, 5)) * 10,
     start       |-> OneDlAddress_array(Slice(raw_data, 6, 9)),
     end         |-> OneDlAddress_array(Slice(raw_data, 9, 12))]

OneDlHeader(raw_data) ==
    LET checksum      == raw_data[13]
        checksum_calc == SumSeq(Slice(raw_data, 0, 12)) % 256
    IN  IF checksum # checksum_calc
        THEN [err |-> "IOError: Checksum mismatch in header"]
        ELSE [err         |-> "none",
              identifier  |-> raw_data[1],
              version     |-> raw_data[2],
              timestamp_s |-> Unpack24(Slice(raw_data, 2, 5)) * 10,
              start       |-> OneDlAddress_array(Slice(raw_data, 6, 9)),
              end         |-> OneDlAddress_array(Slice(raw_data, 9, 12))]

get_sample_count(header) == calc_length(header.start, header.end)

(***************************************************************************)
(* Sensor frames: InputData, PumpSpeed, DateTime, Uvr1611Data and its two  *)
(* subclasses.  Physical values are floats in the source; the model keeps  *)
(* value10, ten times the value, which is an exact integer in every branch.*)
(***************************************************************************)
\* the values of enum InputDataSignalType
UNUSED == 0

DIGITAL == 1

TEMPERATURE == 2

MASSFLOW == 3

SUNLOAD == 6

ROOM_TEMPERATURE == 7

SignalTypes == {UNUSED, DIGITAL, TEMPERATURE, MASSFLOW, SUNLOAD, ROOM_TEMPERATURE}

\* unpack("<h", b)[0]: little-endian signed 16-bit
UnpackInt16(b) ==
    LET u == b[1] + 256 * b[2]
    IN  IF u >= 32768 THEN u - 65536 ELSE u

\* unpack("<H", b)[0]: little-endian unsigned 16-bit
UnpackUInt16(b) == b[1] + 256 * b[2]

\* the field read without its sign
SignedField_Unsigned(word, nbits) == Bits(word, 0, nbits)

\* the value of a signed field of nbits bits, mask m = 2^nbits - 1: the two
\* branches of "if word & 0x8000", -(((word & m) ^ m) + 1) and word & m;
\* v ^ m = m - v for 0 <= v <= m
SignedField(word, nbits) ==
    IF Bits(word, 15, 16) # 0
    THEN -(((Pow2(nbits) - 1) - Bits(word, 0, nbits)) + 1)
    ELSE Bits(word, 0, nbits)

\* InputData.__init__ after word = unpack("<h", raw_data)[0] and
\* tag = (word & 0x7000) >> 12; InputDataSignalType(tag) raises ValueError
\* for a tag that is no member of the enum
InputData_init(word, tag) ==
    IF tag \notin SignalTypes
    THEN [err |-> "ValueError: not a valid InputDataSignalType"]
    ELSE IF tag = UNUSED
    THEN [err |-> "none", type |-> tag, value10 |-> 0, unit |-> "", room |-> 0]
    ELSE IF tag = DIGITAL
    THEN [err |-> "none", type |-> tag,
          value10 |-> IF Bits(word, 15, 16) # 0 THEN 10 ELSE 0,
          unit |-> "", room |-> 0]
    ELSE IF tag = TEMPERATURE
    THEN [err |-> "none", type |-> tag,
          value10 |-> SignedField(word, 12), unit |-> "C", room |-> 0]
    ELSE IF tag = ROOM_TEMPERATURE
    THEN [err |-> "none", type |-> tag,
          value10 |-> SignedField(word, 9), unit |-> "C",
          room |-> Bits(word, 9, 11)]
    ELSE IF tag = MASSFLOW
    THEN [err |-> "none", type |-> tag,
          value10 |-> SignedField(word, 12) * 40, unit |-> "l/h", room |-> 0]
    ELSE [err |-> "none", type |-> tag,
          value10 |-> SignedField(word, 12) * 10, unit |-> "W/m2", room |-> 0]

\* InputData that takes the tag from bits 15..13
InputData_TopBits(raw_data) ==
    InputData_init(UnpackInt16(raw_data), Bits(UnpackInt16(raw_data), 13, 16))

InputData(raw_data) ==
    InputData_init(UnpackInt16(raw_data), Bits(UnpackInt16(raw_data), 12, 15))

PumpSpeed(raw_data) ==
    [controller_active |-> (BitAnd(raw_data, 128) = 0),
     value             |-> BitAnd(raw_data, 31)]

DateTime(raw_data) ==
    [seconds |-> raw_data[1], minutes |-> raw_data[2], hours |-> raw_data[3],
     day |-> raw_data[4], month |-> raw_data[5], year |-> 2000 + raw_data[6]]

\* the sixteen InputData(data[i*2:i*2+2]) of the loop over the inputs
DecodeInputs(data) ==
    [i \in 1..16 |-> InputData(Slice(data, (i - 1) * 2, (i - 1) * 2 + 2))]

\* the exception of the first input that does not decode, "none" if all do
FirstError(inputs) ==
    IF \A i \in 1..16 : inputs[i].err = "none" THEN "none"
    ELSE inputs[CHOOSE i \in 1..16 :
                  /\ inputs[i].err # "none"
                  /\ \A j \in 1..(i - 1) : inputs[j].err = "none"].err

\* raw_data[-1] == sum(raw_data[0:-1]) & 0xFF
ChecksumOk(raw_data) ==
    raw_data[Len(raw_data)] = BitAnd(SumSeq(Slice(raw_data, 0, Len(raw_data) - 1)), 255)

\* Uvr1611Data.__init__ with the checksum validated before the inputs are decoded
Uvr1611Data_ChecksumFirst(raw_data, data, inputs) ==
    IF ~ChecksumOk(raw_data)
    THEN [err |-> "IOError: Checksum mismatch in header"]
    ELSE IF FirstError(inputs) # "none"
    THEN [err |-> FirstError(inputs)]
    ELSE [err |-> "none", inputs |-> inputs,
          outputs |-> [i \in 1..13 |->
                         BitAnd(UnpackUInt16(Slice(data, 32, 34)), Shl(1, i - 1)) # 0],
          pump_speeds |-> [i \in 1..4 |-> PumpSpeed(data[34 + i])]]

\* Uvr1611Data.__init__ after data = raw_data[offset:], with the decoded inputs:
\* the loop over the inputs raises first, the checksum is validated last
Uvr1611Data_init(raw_data, data, inputs) ==
    IF FirstError(inputs) # "none"
    THEN [err |-> FirstError(inputs)]
    ELSE IF ~ChecksumOk(raw_data)
    THEN [err |-> "IOError: Checksum mismatch in header"]
    ELSE [err |-> "none", inputs |-> inputs,
          outputs |-> [i \in 1..13 |->
                         BitAnd(UnpackUInt16(Slice(data, 32, 34)), Shl(1, i - 1)) # 0],
          pump_speeds |-> [i \in 1..4 |-> PumpSpeed(data[34 + i])]]

Uvr1611Data(raw_data, offset) ==
    Uvr1611Data_init(raw_data,
                     Slice(raw_data, offset, Len(raw_data)),
                     DecodeInputs(Slice(raw_data, offset, Len(raw_data))))

\* Uvr1611CurrentData.__init__ after the base class constructor
Uvr1611CurrentData_init(raw_data, base) ==
    IF base.err # "none" THEN base
    ELSE IF raw_data[1] # 128 THEN [err |-> "IOError: Unexpected data"]
    ELSE base

Uvr1611CurrentData(raw_data) ==
    Uvr1611CurrentData_init(raw_data, Uvr1611Data(raw_data, 1))

\* Uvr1611MemoryData.__init__ after the base class constructor
Uvr1611MemoryData_init(raw_data, base) ==
    IF base.err # "none" THEN base
    ELSE [err |-> "none", inputs |-> base.inputs, outputs |-> base.outputs,
          pump_speeds |-> base.pump_speeds,
          datetime |-> DateTime(Slice(raw_data, 55, 61)),
          timestamp_s |-> Unpack24(Slice(raw_data, 61, 64)) * 10]

Uvr1611MemoryData(raw_data) ==
    Uvr1611MemoryData_init(raw_data, Uvr1611Data(raw_data, 0))

(***************************************************************************)
(* LoggingCriterion.                                                       *)
(***************************************************************************)
\* LoggingCriterion without the upper bound of the temperature range
LoggingCriterion_NoUpper(raw_data) ==
    IF 5 <= raw_data
    THEN [err |-> "none", raw |-> raw_data,
          temperature_difference_k10 |-> raw_data, time_interval_s |-> -1]
    ELSE [err |-> "Exception: Invalid logging criterion"]

LoggingCriterion(raw_data) ==
    IF 5 <= raw_data /\ raw_data <= 120
    THEN [err |-> "none", raw |-> raw_data,
          temperature_difference_k10 |-> raw_data, time_interval_s |-> -1]
    ELSE IF 129 <= raw_data /\ raw_data <= 248
    THEN [err |-> "none", raw |-> raw_data,
          temperature_difference_k10 |-> -1,
          time_interval_s |-> (raw_data - 128) * 20]
    ELSE [err |-> "Exception: Invalid logging criterion"]

(***************************************************************************)
(* device.py: DLoggDevice.  Every method is an operator from the channel   *)
(* log before the call and the bytes the device answers with to a record   *)
(* [io, err, ret]: the log after the call, the exception raised ("none"    *)
(* when the call returns) and the value returned.  The part of a method    *)
(* that follows its exchange is an operator of the exchange's outcome t.   *)
(***************************************************************************)
\* the IOError of _transceive, told apart by the number of bytes expected
ShortRead(rx_len) ==
    CASE rx_len = 1  -> "IOError: Received fewer bytes instead of 1"
      [] rx_len = 3  -> "IOError: Received fewer bytes instead of 3"
      [] rx_len = 5  -> "IOError: Received fewer bytes instead of 5"
      [] rx_len = 13 -> "IOError: Received fewer bytes instead of 13"
      [] rx_len = 57 -> "IOError: Received fewer bytes instead of 57"
      [] OTHER       -> "IOError: Received fewer bytes instead of 65"

\* tx_data += [sum(tx_data) % 0x100] when a checksum is asked for
Framed(tx_data, checksum) ==
    IF checksum THEN Append(tx_data, SumSeq(tx_data) % 256) ELSE tx_data

\* the flush, the write and the read of one exchange; rx_data is what
\* serial.read(rx_len) returned
Exchange(tx, rx_len, rx_data) ==
    << [op |-> "flush"],
       [op |-> "write", data |-> tx],
       [op |-> "read", size |-> rx_len, data |-> rx_data] >>

\* _transceive that reads again after a short read
transceive_Retry(log, tx_data, rx_len, checksum, rx) ==
    IF Len(rx) < rx_len
    THEN [io |-> log \o Exchange(Framed(tx_data, checksum), rx_len, rx)
                     \o << [op |-> "read", size |-> rx_len - Len(rx), data |-> <<>>] >>,
          err |-> ShortRead(rx_len), rx_data |-> rx]
    ELSE [io |-> log \o Exchange(Framed(tx_data, checksum), rx_len, Slice(rx, 0, rx_len)),
          err |-> "none", rx_data |-> Slice(rx, 0, rx_len)]

\* rx: the bytes the device sends before the read times out; serial.read(rx_len)
\* returns at most rx_len of them
transceive(log, tx_data, rx_len, checksum, rx) ==
    IF Len(rx) < rx_len
    THEN [io |-> log \o Exchange(Framed(tx_data, checksum), rx_len, rx),
          err |-> ShortRead(rx_len), rx_data |-> rx]
    ELSE [io |-> log \o Exchange(Framed(tx_data, checksum), rx_len, Slice(rx, 0, rx_len)),
          err |-> "none", rx_data |-> Slice(rx, 0, rx_len)]

\* what a method that raised hands on: the log so far and the exception
Raise(log, e) == [io |-> log, err |-> e, ret |-> <<>>]

Return(log, v) == [io |-> log, err |-> "none", ret |-> v]

\* return X(data) for a constructor X that may raise
Decoded(log, d) == IF d.err # "none" THEN Raise(log, d.err) ELSE Return(log, d)

\* get_type after its exchange: the sleep comes before the checks
get_type_check(t, slept) ==
    IF t.err # "none" THEN Raise(t.io, t.err)
    ELSE IF t.rx_data[1] # 33 \/ t.rx_data[2] # 67
    THEN Raise(slept, "IOError: Unexpected response")
    ELSE IF BitAnd(SumSeq(Slice(t.rx_data, 2, 4)), 255) # t.rx_data[5]
    THEN Raise(slept, "IOError: Checksum mismatch")
    ELSE IF t.rx_data[3] \notin TypeValues
    THEN Raise(slept, "ValueError: not a valid Type")
    ELSE Return(slept, t.rx_data[3])

\* time.sleep(0.1) after the exchange returned
Slept(t) == Append(t.io, [op |-> "sleep"])

get_type(log, rx) ==
    get_type_check(transceive(log, <<32, 16, 24, 0, 0, 0, 0>>, 5, TRUE, rx),
                   Slept(transceive(log, <<32, 16, 24, 0, 0, 0, 0>>, 5, TRUE, rx)))

\* returns str(data[0] / 10.0); the model returns data[0], ten times the version
get_firmware_version_ret(t) ==
    IF t.err # "none" THEN Raise(t.io, t.err) ELSE Return(t.io, t.rx_data[1])

get_firmware_version(log, rx) ==
    get_firmware_version_ret(transceive(log, <<GET_FIRMWARE_VERSION>>, 1, FALSE, rx))

\* Mode(data[0])
get_mode_ret(t) ==
    IF t.err # "none" THEN Raise(t.io, t.err)
    ELSE IF t.rx_data[1] \notin ModeValues
    THEN Raise(t.io, "ValueError: not a valid Mode")
    ELSE Return(t.io, t.rx_data[1])

get_mode(log, rx) == get_mode_ret(transceive(log, <<GET_MODE>>, 1, FALSE, rx))

get_logging_criterion_ret(t) ==
    IF t.err # "none" THEN Raise(t.io, t.err)
    ELSE IF t.rx_data[1] # GET_LOGGING_CRITERION
    THEN Raise(t.io, "IOError: Unexpected response")
    ELSE Decoded(t.io, LoggingCriterion(t.rx_data[2]))

get_logging_criterion(log, rx) ==
    get_logging_criterion_ret(transceive(log, <<GET_LOGGING_CRITERION>>, 3, FALSE, rx))

\* if data[0] != expected: raise IOError("Unexpected response")
Echoed(t, expected) ==
    IF t.err # "none" THEN Raise(t.io, t.err)
    ELSE IF t.rx_data[1] # expected
    THEN Raise(t.io, "IOError: Unexpected response")
    ELSE Return(t.io, <<>>)

set_logging_criterion(log, criterion, rx) ==
    Echoed(transceive(log, <<SET_LOGGING_CRITERION, criterion.raw>>, 1, FALSE, rx),
           criterion.raw)

get_header_ret(t) ==
    IF t.err # "none" THEN Raise(t.io, t.err)
    ELSE Decoded(t.io, OneDlHeader(t.rx_data))

get_header(log, rx) == get_header_ret(transceive(log, <<GET_HEADER>>, 13, FALSE, rx))

get_current_data_ret(t) ==
    IF t.err # "none" THEN Raise(t.io, t.err)
    ELSE Decoded(t.io, Uvr1611CurrentData(t.rx_data))

get_current_data(log, rx) ==
    get_current_data_ret(transceive(log, <<GET_CURRENT_DATA>>, 57, FALSE, rx))

fetch_data_ret(t) ==
    IF t.err # "none" THEN Raise(t.io, t.err)
    ELSE Decoded(t.io, Uvr1611MemoryData(t.rx_data))

fetch_data(log, address, rx) ==
    fetch_data_ret(transceive(log, <<GET_DATA_RANGE>> \o address.array \o <<1>>,
                              65, TRUE, rx))

\* the address of iteration i, without the reduction modulo the memory size
range_address_NoWrap(start_addr, i) == OneDlAddress_int(start_addr.integer + i)

\* the address of iteration i of the loop of fetch_data_range
range_address(start_addr, i) == OneDlAddress_int((start_addr.integer + i) % 8192)

RECURSIVE fetch_data_range_loop(_, _, _, _, _, _)
RECURSIVE fetch_data_range_step(_, _, _, _, _, _)
\* the for loop of fetch_data_range from iteration i on; rxs[i + 1] is the
\* device's answer to the exchange of iteration i
fetch_data_range_loop(log, start_addr, length, i, data, rxs) ==
    IF i >= length THEN Return(log, data)
    ELSE fetch_data_range_step(fetch_data(log, range_address(start_addr, i), rxs[i + 1]),
                               start_addr, length, i, data, rxs)

\* iteration i that skips a frame whose fetch_data failed and goes on
fetch_data_range_step_Skipping(f, start_addr, length, i, data, rxs) ==
    fetch_data_range_loop(f.io, start_addr, length, i + 1,
                          IF f.err # "none" THEN data ELSE Append(data, f.ret), rxs)

\* iteration i after its fetch_data f: an exception leaves the loop
fetch_data_range_step(f, start_addr, length, i, data, rxs) ==
    IF f.err # "none" THEN Raise(f.io, f.err)
    ELSE fetch_data_range_loop(f.io, start_addr, length, i + 1,
                               Append(data, f.ret), rxs)

fetch_data_range(log, start_addr, length, rxs) ==
    fetch_data_range_loop(log, start_addr, length, 0, <<>>, rxs)

\* fetch_end that sends the clear-memory opcode
fetch_end_Clearing(log, rx) ==
    Echoed(transceive(log, <<CLEAR_MEMORY>>, 1, FALSE, rx), END_READ)

fetch_end(log, rx) == Echoed(transceive(log, <<END_READ>>, 1, FALSE, rx), END_READ)

\* the try block of fetch_all_data after get_header
fetch_all_data_range(h, rxs) ==
    IF h.err # "none" THEN h
    ELSE fetch_data_range(h.io, h.ret.start, get_sample_count(h.ret), rxs)

\* the try block of fetch_all_data
fetch_all_data_try(log, hrx, rxs) == fetch_all_data_range(get_header(log, hrx), rxs)

\* the outcome of try (r) and finally (e): an exception raised by fetch_end
\* in the finally clause replaces the one that was propagating
fetch_all_data_outcome(r, e) ==
    IF e.err # "none" THEN Raise(e.io, e.err)
    ELSE IF r.err # "none" THEN Raise(e.io, r.err)
    ELSE Return(e.io, r.ret)

\* fetch_end only when the try block succeeded (no finally)
fetch_all_data_finally_NoFinally(r, erx) ==
    IF r.err # "none" THEN r
    ELSE fetch_all_data_outcome(r, fetch_end(r.io, erx))

\* finally: self.fetch_end()
fetch_all_data_finally(r, erx) == fetch_all_data_outcome(r, fetch_end(r.io, erx))

fetch_all_data(log, hrx, rxs, erx) ==
    fetch_all_data_finally(fetch_all_data_try(log, hrx, rxs), erx)

clear_memory(log, rx) ==
    Echoed(transceive(log, <<CLEAR_MEMORY>>, 1, FALSE, rx), CLEAR_MEMORY)

\* DLoggDevice.__init__ without the mode check
DLoggDevice_init_AnyMode(m) ==
    [serial |-> "open", io |-> m.io, err |-> m.err, ret |-> <<>>]

\* DLoggDevice.__init__ after mode = self.get_mode() (outcome m): the port was
\* opened before, and nothing closes it when the constructor raises
DLoggDevice_init_mode(m) ==
    IF m.err # "none"
    THEN [serial |-> "open", io |-> m.io, err |-> m.err, ret |-> <<>>]
    ELSE IF m.ret # ONE_DL
    THEN [serial |-> "open", io |-> m.io,
          err |-> "Exception: Mode is not supported", ret |-> <<>>]
    ELSE [serial |-> "open", io |-> m.io, err |-> "none", ret |-> <<>>]

\* DLoggDevice.__init__: opens the port, then asks for the mode on the fresh
\* channel (empty log)
DLoggDevice_init(rx) == DLoggDevice_init_mode(get_mode(<<>>, rx))

(***************************************************************************)
(* The D-LOGG on the other end of the channel: the answers it may give.    *)
(* Each set holds a short read, answers that every check accepts and       *)
(* answers that fail each check of the method that reads them.             *)
(***************************************************************************)
\* longest range read of the model
MaxLen == 5

\* method calls made inside the with block
MaxOps == 1

\* the wire bytes of a 16-bit word, little-endian
WordBytes(w) == << w % 256, w \div 256 >>

RECURSIVE Flatten(_)
Flatten(ss) == IF ss = <<>> THEN <<>> ELSE ss[1] \o Flatten(Tail(ss))

WithChecksum(payload) == Append(payload, SumSeq(payload) % 256)

WithBadChecksum(payload) == Append(payload, (SumSeq(payload) + 1) % 256)

\* sixteen input words: unused, digital 0 and 1, temperature 0.5 and -0.5,
\* massflow, sunload, room temperature, and unused channels
SampleWords ==
    << 0, 4096, 36864, 8197, 45051, 12304, 24867, 28677,
       61435, 0, 0, 0, 8492, 0, 0, 0 >>

\* the first 61 bytes of a memory frame: the inputs, the outputs 0, 2 and 12,
\* four pump speeds, 17 bytes the driver does not read, the date and time
PayloadHead(words) ==
    Flatten([i \in 1..16 |-> WordBytes(words[i])])
    \o << 5, 16 >> \o << 3, 131, 30, 0 >>
    \o [i \in 1..17 |-> 0]
    \o << 30, 59, 23, 31, 12, 17 >>

\* the words with input 0 carrying the undefined signal type 4
BadTagWords == [SampleWords EXCEPT ![1] = 16384]

SampleHead == PayloadHead(SampleWords)

BadTagHead == PayloadHead(BadTagWords)

\* the 64 payload bytes of a memory frame whose timestamp counter is ts
MemoryPayload(head, ts) ==
    head \o << ts % 256, (ts \div 256) % 256, ts \div 65536 >>

DataKinds == {"good", "short", "badsum", "badtag"}

\* how a range read may go: every frame good, or ngood good frames and then
\* one that is short, fails its checksum or does not decode
RangeOutcomes ==
    { <<MaxLen, "good">> } \cup ((0..(MaxLen - 1)) \X (DataKinds \ {"good"}))

\* the answer to a get-data-range command for memory index idx
DataReply(kind, idx) ==
    CASE kind = "good"   -> WithChecksum(MemoryPayload(SampleHead, idx))
      [] kind = "short"  -> SubSeq(MemoryPayload(SampleHead, idx), 1, 10)
      [] kind = "badsum" -> WithBadChecksum(MemoryPayload(SampleHead, idx))
      [] OTHER           -> WithChecksum(MemoryPayload(BadTagHead, idx))

\* the answers to the exchanges of a range read from index start: the first
\* ngood are good frames, the next one is of the given kind
RangeReplies(start, ngood, kind) ==
    [i \in 1..(MaxLen + 1) |->
        DataReply(IF i <= ngood THEN "good" ELSE kind, (start + i - 1) % 8192)]

HeaderPayload(start, end) == << 168, 1, 10, 20, 0, 0 >> \o start \o end

\* start addresses of the range reads and headers of the model
StartIndexes == {0, 8190}

\* (start, end) byte triples of the headers: every length 1..MaxLen from each
\* start index, the empty memory, and a sentinel start with a real end
HeaderPairs ==
    { << OneDlAddress_int(s).array, OneDlAddress_int((s + n - 1) % 8192).array >> :
        s \in StartIndexes, n \in 1..MaxLen }
    \cup { << Sentinel, Sentinel >>, << Sentinel, <<0, 0, 0>> >> }

HeaderReplies ==
    { WithChecksum(HeaderPayload(p[1], p[2])) : p \in HeaderPairs }
    \cup { WithBadChecksum(HeaderPayload(<<0, 0, 0>>, <<128, 0, 0>>)),
           SubSeq(HeaderPayload(<<0, 0, 0>>, <<128, 0, 0>>), 1, 12) }

\* the index a header's start address decodes to, reduced as the range read does
StartOf(hrx) ==
    IF Len(hrx) < 13 THEN 0 ELSE OneDlAddress_array(Slice(hrx, 6, 9)).integer % 8192

ModeReplies == { <<>>, <<168>>, <<209>>, <<220>>, <<162>>, <<0>> }

ByteReplies(expected) == { <<>>, <<expected>>, <<0>> }

TypeReplies ==
    { <<33, 67>>,
      <<33, 67, 168, 0, 168>>,
      <<33, 67, 163, 1, 164>>,
      <<0, 67, 168, 0, 168>>,
      <<33, 67, 168, 0, 0>>,
      <<33, 67, 1, 0, 1>> }

CriterionReplies ==
    { <<149>>, <<149, 30, 0>>, <<149, 140, 0>>, <<0, 30, 0>>, <<149, 0, 0>> }

CurrentReplies ==
    LET body == SubSeq(MemoryPayload(SampleHead, 0), 1, 55)
    IN  { WithChecksum(<<128>> \o body),
          WithChecksum(<<0>> \o body),
          WithBadChecksum(<<128>> \o body),
          WithBadChecksum(<<0>> \o body),
          WithChecksum(<<128>> \o SubSeq(MemoryPayload(BadTagHead, 0), 1, 55)),
          <<128>> \o body }

\* the criteria a caller may pass to set_logging_criterion
Criteria == { LoggingCriterion(30), LoggingCriterion(140) }

(***************************************************************************)
(* The script: with DLoggDevice(port) as device: <method calls>.           *)
(***************************************************************************)
NoCall == [op |-> "none", args |-> <<>>, mark |-> 0, err |-> "none", ret |-> <<>>]

\* the timestamps of a list of decoded memory frames
Timestamps(frames) == [i \in 1..Len(frames) |-> frames[i].timestamp_s]

Init ==
    /\ serial = "unopened"
    /\ io = <<>>
    /\ pc = "new"
    /\ call = NoCall
    /\ nops = 0
    /\ fn = "none"
    /\ arg = <<>>
    /\ res = <<>>

\* what the script keeps of a method's return value
Kept(name, ret) ==
    CASE name \in {"fetch_data_range", "fetch_all_data"} -> Timestamps(ret)
      [] name = "fetch_data" -> ret.timestamp_s
      [] name = "get_current_data" -> ret.inputs[4].value10
      [] OTHER -> ret

\* the effect of a call of method name with arguments args and outcome r
Called(name, args, r) ==
    /\ io' = r.io
    /\ call' = [op |-> name, args |-> args, mark |-> Len(io), err |-> r.err,
                ret |-> IF r.err = "none" THEN Kept(name, r.ret) ELSE <<>>]
    /\ UNCHANGED <<codecVars>>

\* DLoggDevice(port): when the constructor raises, the with block is never
\* entered and __exit__ is not called
Constructed(r) ==
    /\ serial' = r.serial
    /\ pc' = IF r.err = "none" THEN "body" ELSE "done"
    /\ Called("__init__", <<>>, r)
    /\ UNCHANGED nops

Construct ==
    /\ pc = "new"
    /\ \E rx \in ModeReplies : Constructed(DLoggDevice_init(rx))

\* a method may be called while the block runs and no exception propagates
CanCall == pc = "body" /\ call.err = "none" /\ nops < MaxOps

InBody ==
    /\ CanCall
    /\ nops' = nops + 1
    /\ UNCHANGED <<serial, pc>>

GetType ==
    /\ InBody
    /\ \E rx \in TypeReplies : Called("get_type", <<>>, get_type(io, rx))

GetFirmwareVersion ==
    /\ InBody
    /\ \E rx \in ByteReplies(29) :
         Called("get_firmware_version", <<>>, get_firmware_version(io, rx))

GetMode ==
    /\ InBody
    /\ \E rx \in ModeReplies : Called("get_mode", <<>>, get_mode(io, rx))

GetLoggingCriterion ==
    /\ InBody
    /\ \E rx \in CriterionReplies :
         Called("get_logging_criterion", <<>>, get_logging_criterion(io, rx))

SetLoggingCriterion ==
    /\ InBody
    /\ \E c \in Criteria : \E rx \in ByteReplies(c.raw) :
         Called("set_logging_criterion", <<c.raw>>, set_logging_criterion(io, c, rx))

GetHeader ==
    /\ InBody
    /\ \E rx \in HeaderReplies : Called("get_header", <<>>, get_header(io, rx))

GetCurrentData ==
    /\ InBody
    /\ \E rx \in CurrentReplies :
         Called("get_current_data", <<>>, get_current_data(io, rx))

FetchData ==
    /\ InBody
    /\ \E s \in StartIndexes : \E k \in DataKinds :
         Called("fetch_data", <<s>>,
                fetch_data(io, OneDlAddress_int(s), DataReply(k, s)))

FetchDataRange ==
    /\ InBody
    /\ \E s \in StartIndexes : \E length \in 0..MaxLen : \E o \in RangeOutcomes :
         Called("fetch_data_range", <<s, length>>,
                fetch_data_range(io, OneDlAddress_int(s), length,
                                 RangeReplies(s, o[1], o[2])))

FetchEnd ==
    /\ InBody
    /\ \E rx \in ByteReplies(END_READ) : Called("fetch_end", <<>>, fetch_end(io, rx))

FetchAllData ==
    /\ InBody
    /\ \E hrx \in HeaderReplies : \E o \in RangeOutcomes :
       \E erx \in ByteReplies(END_READ) :
         Called("fetch_all_data", <<>>,
                fetch_all_data(io, hrx, RangeReplies(StartOf(hrx), o[1], o[2]), erx))

ClearMemory ==
    /\ InBody
    /\ \E rx \in ByteReplies(CLEAR_MEMORY) :
         Called("clear_memory", <<>>, clear_memory(io, rx))

\* __exit__, at the end of the block or when an exception leaves it: close()
Exit ==
    /\ pc = "body"
    /\ serial' = "closed"
    /\ pc' = "done"
    /\ UNCHANGED <<io, call, nops, codecVars>>

Next ==
    \/ Construct
    \/ GetType
    \/ GetFirmwareVersion
    \/ GetMode
    \/ GetLoggingCriterion
    \/ SetLoggingCriterion
    \/ GetHeader
    \/ GetCurrentData
    \/ FetchData
    \/ FetchDataRange
    \/ FetchEnd
    \/ FetchAllData
    \/ ClearMemory
    \/ Exit

Spec == Init /\ [][Next]_vars

(***************************************************************************)
(* The address codec on its own: the round trip of the self-test of        *)
(* definitions.py over the whole address space, and calc_length on pairs   *)
(* of encoded addresses.                                                   *)
(***************************************************************************)
\* how far around the start index the end indexes of the pairs are taken
NearSpan == 1

\* end indexes paired with every start index
EdgeIndexes == {0, 100, 8000, 8191}

\* the end indexes paired with start index s
EndsFor(s) == { (s + d) % 8192 : d \in (0 - NearSpan)..NearSpan } \cup EdgeIndexes

Idle ==
    /\ serial = "unopened"
    /\ io = <<>>
    /\ pc = "new"
    /\ call = NoCall
    /\ nops = 0

InitAddr ==
    /\ Idle
    /\ fn = "none"
    /\ res = <<>>
    /\ \/ \E i \in 0..8191 : arg = [kind |-> "index", i |-> i]
       \/ \E s \in 0..8191 : \E e \in EndsFor(s) :
            arg = [kind |-> "pair", start |-> s, end |-> e]

\* addr_1 = OneDlAddress(i); addr_2 = OneDlAddress(addr_1.array)
SelfTestPair(addr_1) == [addr_1 |-> addr_1, addr_2 |-> OneDlAddress_array(addr_1.array)]

RoundTrip ==
    /\ fn = "none"
    /\ arg.kind = "index"
    /\ fn' = "roundtrip"
    /\ res' = SelfTestPair(OneDlAddress_int(arg.i))
    /\ UNCHANGED <<arg, devVars>>

CalcLength ==
    /\ fn = "none"
    /\ arg.kind = "pair"
    /\ fn' = "calc_length"
    /\ res' = calc_length(OneDlAddress_int(arg.start), OneDlAddress_int(arg.end))
    /\ UNCHANGED <<arg, devVars>>

\* the old algorithm without the carry into the third byte
next_address_NoCarry(addr) ==
    IF addr[1] <= 128 THEN << addr[1] + 64, addr[2], addr[3] >>
    ELSE IF addr[2] # 254 THEN << 0, addr[2] + 2, addr[3] >>
    ELSE << 0, 0, addr[3] >>

\* next_address_of_old_algorithm of the self-test
next_address_of_old_algorithm(addr) ==
    IF addr[1] <= 128 THEN << addr[1] + 64, addr[2], addr[3] >>
    ELSE IF addr[2] # 254 THEN << 0, addr[2] + 2, addr[3] >>
    ELSE IF addr[3] + 1 > 15 THEN << 0, 0, 0 >>
    ELSE << 0, 0, addr[3] + 1 >>

\* old = next_address_of_old_algorithm(addr) and
\* new = OneDlAddress(OneDlAddress(addr).integer + 1).array of the self-test,
\* and the array of the successor as the loop of fetch_data_range computes it
SuccessorPair(addr) ==
    [old     |-> next_address_of_old_algorithm(addr),
     new     |-> OneDlAddress_int(OneDlAddress_array(addr).integer + 1).array,
     wrapped |-> range_address(OneDlAddress_array(addr), 1).array]

NextAddress ==
    /\ fn = "none"
    /\ arg.kind = "index"
    /\ fn' = "next_address"
    /\ res' = SuccessorPair(OneDlAddress_int(arg.i).array)
    /\ UNCHANGED <<arg, devVars>>

NextAddr == RoundTrip \/ CalcLength \/ NextAddress

SpecAddr == InitAddr /\ [][NextAddr]_vars

(***************************************************************************)
(* The header codec on its own: OneDlHeader on 13-byte headers, and on the *)
(* same header with one bit of bytes 0..11 flipped.                        *)
(***************************************************************************)
\* start and end byte triples of the headers: the sentinel, the first and
\* the last but one slot, a slot in the middle, and bytes no index encodes to
HeaderTriples == { Sentinel, <<0, 0, 0>>, <<128, 254, 15>>, <<64, 2, 1>>, <<255, 255, 15>> }

SampleHeaders ==
    { WithChecksum(HeaderPayload(p[1], p[2])) : p \in HeaderTriples \X HeaderTriples }
    \cup { WithBadChecksum(HeaderPayload(p[1], p[2])) : p \in {Sentinel} \X HeaderTriples }

InitHeader ==
    /\ Idle
    /\ fn = "none"
    /\ res = <<>>
    /\ arg \in [raw : SampleHeaders, pos : 0..11, bit : 0..7]

\* the header with bit number bit of byte pos inverted
FlipBit(raw, pos, bit) == [raw EXCEPT ![pos + 1] = BitXor(@, Pow2(bit))]

\* what a caller sees of a header: the exception, or the addresses and the
\* sample count
HeaderSeen(h) ==
    IF h.err # "none" THEN [err |-> h.err]
    ELSE [err |-> "none", start |-> h.start, end |-> h.end,
          count |-> get_sample_count(h)]

DecodeHeader ==
    /\ fn = "none"
    /\ fn' = "OneDlHeader"
    /\ res' = [plain   |-> HeaderSeen(OneDlHeader(arg.raw)),
               flipped |-> HeaderSeen(OneDlHeader(FlipBit(arg.raw, arg.pos, arg.bit)))]
    /\ UNCHANGED <<arg, devVars>>

NextHeader == DecodeHeader

SpecHeader == InitHeader /\ [][NextHeader]_vars

(***************************************************************************)
(* The memory frame decoder on its own: Uvr1611MemoryData on 65-byte       *)
(* frames, and on the same frame with one of bytes 0..63 replaced.         *)
(***************************************************************************)
\* sixteen temperature and room temperature words, both signs
TemperatureWords ==
    << 8197, 45051, 28677, 61435, 8192, 12287, 40960, 45055,
       28672, 29183, 61440, 61951, 9000, 41000, 30000, 62000 >>

SampleFrames ==
    { WithChecksum(MemoryPayload(SampleHead, 0)),
      WithChecksum(MemoryPayload(PayloadHead(TemperatureWords), 8191)),
      WithBadChecksum(MemoryPayload(SampleHead, 1)) }

InitFrame ==
    /\ Idle
    /\ fn = "none"
    /\ res = <<>>
    /\ arg \in [raw : SampleFrames, pos : 0..63, val : 0..255]
    /\ arg.val # arg.raw[arg.pos + 1]

DecodeMemoryFrame ==
    /\ fn = "none"
    /\ fn' = "Uvr1611MemoryData"
    /\ res' = [plain   |-> Uvr1611MemoryData(arg.raw).err,
               changed |-> Uvr1611MemoryData([arg.raw EXCEPT ![arg.pos + 1] = arg.val]).err]
    /\ UNCHANGED <<arg, devVars>>

NextFrame == DecodeMemoryFrame

SpecFrame == InitFrame /\ [][NextFrame]_vars

(***************************************************************************)
(* The input decoder on its own: InputData on every 16-bit word.           *)
(***************************************************************************)
InitInput ==
    /\ Idle
    /\ fn = "none"
    /\ res = <<>>
    /\ arg \in [raw : (0..255) \X (0..255)]

DecodeInput ==
    /\ fn = "none"
    /\ fn' = "InputData"
    /\ res' = InputData(arg.raw)
    /\ UNCHANGED <<arg, devVars>>

NextInput == DecodeInput

SpecInput == InitInput /\ [][NextInput]_vars

(***************************************************************************)
(* The logging criterion on its own: LoggingCriterion on every byte, and   *)
(* set_logging_criterion with the decoded criterion.                       *)
(***************************************************************************)
InitCriterion ==
    /\ Idle
    /\ fn = "none"
    /\ res = <<>>
    /\ arg \in [r : 0..255]

DecodeCriterion ==
    /\ fn = "none"
    /\ fn' = "LoggingCriterion"
    /\ res' = LoggingCriterion(arg.r)
    /\ UNCHANGED <<arg, devVars>>

\* device.set_logging_criterion(logging_criterion) with the decoded criterion
SendCriterion ==
    /\ fn = "LoggingCriterion"
    /\ res.err = "none"
    /\ fn' = "set_logging_criterion"
    /\ \E rx \in ByteReplies(res.raw) :
         res' = [criterion |-> res, sent |-> set_logging_criterion(<<>>, res, rx)]
    /\ UNCHANGED <<arg, devVars>>

NextCriterion == DecodeCriterion \/ SendCriterion

SpecCriterion == InitCriterion /\ [][NextCriterion]_vars

(***************************************************************************)
(* Properties.                                                             *)
(***************************************************************************)
\* the frames written to the channel by the events of log, in order
Writes(log) == SelectSeq(log, LAMBDA e : e.op = "write")

\* what the last method call did on the channel
CallLog == SubSeq(io, call.mark + 1, Len(io))

\* the number of bytes the driver asks for after a command with this first byte
RxLenOf(opcode) ==
    CASE opcode = 32 -> 5
      [] opcode = GET_LOGGING_CRITERION -> 3
      [] opcode = GET_HEADER -> 13
      [] opcode = GET_CURRENT_DATA -> 57
      [] opcode = GET_DATA_RANGE -> 65
      [] OTHER -> 1

\* C1: for every index i in 0..8191, decoding the three bytes that
\* OneDlAddress(i) produces yields i again, and encoding the decoded index
\* again reproduces the same three bytes.
C1_AddressRoundTrip ==
    fn = "roundtrip" =>
        /\ res.addr_1.integer = arg.i
        /\ res.addr_2.integer = arg.i
        /\ OneDlAddress_int(res.addr_2.integer).array = res.addr_1.array

C1_Witness ==
    /\ fn = "roundtrip"
    /\ arg.i = 8191
    /\ res.addr_1.array = <<192, 254, 15>>
    /\ res.addr_2.integer = 8191

\* C2: for addresses made from indexes start, end in 0..8191, calc_length is
\* end-start+1 when end >= start and end-start+8192+1 otherwise: 1 when
\* start = end, 8192 when end is the slot cyclically before start, 293 for
\* start 8000 and end 100, and always within 1..8192.
C2_CalcLength ==
    fn = "calc_length" =>
        /\ res = IF arg.end >= arg.start
                 THEN arg.end - arg.start + 1
                 ELSE arg.end - arg.start + 8192 + 1
        /\ arg.start = arg.end => res = 1
        /\ arg.end = (arg.start - 1) % 8192 => res = 8192
        /\ (arg.start = 8000 /\ arg.end = 100) => res = 293
        /\ res \in 1..8192

C2_Witness ==
    /\ fn = "calc_length"
    /\ arg.start = 8000
    /\ arg.end = 100
    /\ res = 293

\* the get-data-range command for memory index idx: opcode 0xAC, the three
\* address bytes, count 0x01, and the sum of these five bytes modulo 256
RangeCommand(idx) ==
    LET b == << (idx % 4) * 64, ((idx \div 4) % 128) * 2, idx \div 512 >>
    IN  << 172, b[1], b[2], b[3], 1, (172 + b[1] + b[2] + b[3] + 1) % 256 >>

\* C3: a fetch_data_range(start, length) whose exchanges all succeed writes
\* exactly length commands, the i-th for index (start + i) mod 8192, framed
\* as opcode 0xAC, the encoded index, 0x01 and the checksum; start 8190,
\* length 5 visits 8190, 8191, 0, 1, 2.
C3_RangeCommands ==
    (call.op = "fetch_data_range" /\ call.err = "none") =>
        LET w == Writes(CallLog)
        IN  /\ Len(w) = call.args[2]
            /\ \A i \in 1..Len(w) :
                 /\ w[i].data = RangeCommand((call.args[1] + i - 1) % 8192)
                 /\ w[i].data[1] = GET_DATA_RANGE
                 /\ SubSeq(w[i].data, 2, 4)
                      = OneDlAddress_int((call.args[1] + i - 1) % 8192).array
            /\ call.args = <<8190, 5>> =>
                 [i \in 1..5 |-> OneDlAddress_array(SubSeq(w[i].data, 2, 4)).integer]
                   = <<8190, 8191, 0, 1, 2>>

C3_Witness ==
    /\ call.op = "fetch_data_range"
    /\ call.err = "none"
    /\ call.args = <<8190, 5>>
    /\ Len(Writes(CallLog)) = 5
    /\ Writes(CallLog)[3].data = <<172, 0, 0, 0, 1, 173>>

\* C4: every fetch_all_data writes the end-read command 0xAD exactly once,
\* as its last command, whether it succeeded or get_header or a
\* get-data-range exchange failed.
C4_EndReadOnceAndLast ==
    call.op = "fetch_all_data" =>
        LET w == Writes(CallLog)
        IN  /\ Len(w) >= 1
            /\ w[Len(w)].data = <<END_READ>>
            /\ \A i \in 1..(Len(w) - 1) : w[i].data[1] # END_READ

C4_Witness ==
    /\ call.op = "fetch_all_data"
    /\ call.err = ShortRead(65)
    /\ Len(Writes(CallLog)) = 4
    /\ Writes(CallLog)[4].data = <<END_READ>>

\* the events of the channel log without the settle delays
ChannelEvents == SelectSeq(io, LAMBDA e : e.op # "sleep")

\* C5: every exchange is one flush, then one write, then one read asking for
\* the response length of the command; a read that returns fewer bytes ends
\* the exchange with the short-read error and nothing more is read or
\* written for it, a read that does not returns exactly that many bytes, and
\* no command is written again after a short read.
C5_OneExchange ==
    LET ev == ChannelEvents
        n  == Len(ev) \div 3
    IN  /\ Len(ev) = 3 * n
        /\ \A k \in 0..(n - 1) :
             /\ ev[3 * k + 1].op = "flush"
             /\ ev[3 * k + 2].op = "write"
             /\ ev[3 * k + 3].op = "read"
             /\ ev[3 * k + 3].size = RxLenOf(ev[3 * k + 2].data[1])
             /\ Len(ev[3 * k + 3].data) <= ev[3 * k + 3].size
             /\ (Len(ev[3 * k + 3].data) < ev[3 * k + 3].size /\ k + 1 < n
                 /\ 3 * k + 3 > call.mark)
                  => ev[3 * k + 5].data # ev[3 * k + 2].data
        /\ (n > 0 /\ call.err = "none") =>
             Len(ev[3 * n].data) = ev[3 * n].size
        /\ (n > 0 /\ Len(ev[3 * n].data) < ev[3 * n].size) =>
             call.err = ShortRead(ev[3 * n].size)

C5_Witness ==
    /\ call.op = "get_header"
    /\ call.err = ShortRead(13)
    /\ Len(CallLog) = 3
    /\ Len(io[Len(io)].data) = 12

\* C6: constructing a DLoggDevice writes get-mode (0x81) as the first frame
\* on the fresh channel; when the mode byte read is not 0xA8 the constructor
\* fails, writes nothing more and leaves the channel open.
C6_ConstructorModeCheck ==
    /\ serial # "unopened" =>
         /\ Len(Writes(io)) >= 1
         /\ Writes(io)[1].data = <<GET_MODE>>
         /\ io[1].op = "flush" /\ io[2].op = "write"
    /\ (serial # "unopened" /\ io[3].data # <<ONE_DL>>) =>
         /\ call.op = "__init__"
         /\ call.err # "none"
         /\ pc = "done"
         /\ Len(Writes(io)) = 1
         /\ serial = "open"

C6_Witness ==
    /\ call.op = "__init__"
    /\ io[3].data = <<209>>
    /\ call.err = "Exception: Mode is not supported"
    /\ serial = "open"
    /\ pc = "done"

\* C7: in the scoped usage "with DLoggDevice(port) as d", a channel that was
\* opened is closed on every path that leaves the statement: the end of the
\* block, an error inside it, and a failing constructor.
C7_ClosedOnEveryExit == pc = "done" => serial = "closed"

\* whether the thirteenth byte of a header is the sum of the others modulo 256
HeaderSumOk(raw) == raw[13] = SumSeq(SubSeq(raw, 1, 12)) % 256

\* C8: a 13-byte header whose byte 12 is the sum of bytes 0..11 modulo 256
\* decodes, and the same header with any one bit of bytes 0..11 flipped
\* fails with the checksum-mismatch error.
C8_HeaderChecksum ==
    (fn = "OneDlHeader" /\ HeaderSumOk(arg.raw)) =>
        /\ res.plain.err = "none"
        /\ res.flipped.err = "IOError: Checksum mismatch in header"

C8_Witness ==
    /\ fn = "OneDlHeader"
    /\ HeaderSumOk(arg.raw)
    /\ arg.pos = 11
    /\ arg.bit = 7
    /\ res.plain.err = "none"
    /\ res.flipped.err = "IOError: Checksum mismatch in header"

\* C9 as claimed: replacing any one of bytes 0..63 of a valid memory frame by
\* another value makes decoding fail with the checksum-mismatch error.
C9_AnyByteChecksumMismatch ==
    (fn = "Uvr1611MemoryData" /\ res.plain = "none") =>
        res.changed = "IOError: Checksum mismatch in header"

\* the changed byte is the high byte of an input word and its bits 6..4 are
\* a signal type the enum does not define (4 or 5)
UndefinedTagWritten ==
    /\ arg.pos < 32
    /\ arg.pos % 2 = 1
    /\ (arg.val \div 16) % 8 \in {4, 5}

\* C9 amended: replacing any one of bytes 0..63 of a valid memory frame by
\* another value makes decoding fail: with the ValueError of the signal type
\* when the new byte gives an input word the undefined tag 4 or 5, and with
\* the checksum-mismatch error in every other case.
C9_ChangedByteFails ==
    (fn = "Uvr1611MemoryData" /\ res.plain = "none") =>
        /\ res.changed # "none"
        /\ UndefinedTagWritten =>
             res.changed = "ValueError: not a valid InputDataSignalType"
        /\ ~UndefinedTagWritten =>
             res.changed = "IOError: Checksum mismatch in header"

C9_Witness ==
    /\ fn = "Uvr1611MemoryData"
    /\ res.plain = "none"
    /\ arg.pos = 1
    /\ arg.val = 64
    /\ res.changed = "ValueError: not a valid InputDataSignalType"

\* C10: a header whose start and end address are both FF FF FF has sample
\* count 0, not the 1 that the distance formula gives for equal addresses.
C10_SentinelCount ==
    (/\ fn = "OneDlHeader"
     /\ res.plain.err = "none"
     /\ SubSeq(arg.raw, 7, 9) = Sentinel
     /\ SubSeq(arg.raw, 10, 12) = Sentinel) =>
        /\ res.plain.count = 0
        /\ res.plain.count # res.plain.end.integer - res.plain.start.integer + 1

C10_Witness ==
    /\ fn = "OneDlHeader"
    /\ res.plain.err = "none"
    /\ res.plain.start.array = Sentinel
    /\ res.plain.end.array = Sentinel
    /\ res.plain.count = 0

\* C11: the sample count of every header that decodes (its checksum byte is
\* right), whatever its start and end bytes are, is >= 0.
C11_CountNonNegative ==
    (fn = "OneDlHeader" /\ res.plain.err = "none") => res.plain.count >= 0

\* the number of frames in a log whose opcode byte is clear-memory (0xAF)
ClearWrites(log) ==
    Len(SelectSeq(log, LAMBDA e : e.op = "write" /\ e.data[1] = CLEAR_MEMORY))

\* C12: a frame with opcode 0xAF is written to the channel only by a
\* clear_memory call, and by one such call exactly once: no step of the
\* constructor, of any other method or of close adds one.
C12_ClearOnlyExplicit ==
    [][ /\ ClearWrites(io') > ClearWrites(io) => call'.op = "clear_memory"
        /\ (call'.op = "clear_memory" /\ io' # io)
             => ClearWrites(io') = ClearWrites(io) + 1
      ]_vars

C12_Witness ==
    /\ call.op = "clear_memory"
    /\ call.err = "none"
    /\ ClearWrites(CallLog) = 1
    /\ ClearWrites(io) = 1

\* C13: when a get_type call that wrote the identify-type frame is over,
\* whatever its outcome, the settle delay has elapsed: it is the last thing
\* the call did on the channel, so it precedes any next command frame.
C13_SettleDelayOnEveryOutcome ==
    (call.op = "get_type" /\ Len(Writes(CallLog)) = 1) =>
        io[Len(io)].op = "sleep"

\* the error of the exchange made of the write w and the read r, as the
\* method that made it raises it ("none" when the exchange and the decoding
\* of its answer succeed)
StepError(w, r) ==
    IF Len(r.data) < r.size THEN ShortRead(r.size)
    ELSE IF w.data[1] = GET_HEADER THEN OneDlHeader(r.data).err
    ELSE IF w.data[1] = GET_DATA_RANGE THEN Uvr1611MemoryData(r.data).err
    ELSE "none"

\* C14: when get_header or a get-data-range exchange fails inside
\* fetch_all_data, the error the caller gets is the error of that step, also
\* when the end-read exchange that follows fails as well.
C14_FailingStepReported ==
    call.op = "fetch_all_data" =>
        \A k \in 0..((Len(CallLog) \div 3) - 2) :
            StepError(CallLog[3 * k + 2], CallLog[3 * k + 3]) # "none"
              => call.err = StepError(CallLog[3 * k + 2], CallLog[3 * k + 3])

\* the 16-bit word of the two raw bytes of the input decoder's argument, unsigned
ArgWord == arg.raw[1] + 256 * arg.raw[2]

\* C15: for every input word w with signal type TEMPERATURE the decoded value
\* in tenths of a degree is (w AND 0x0FFF) when bit 15 is clear and
\* -(((w AND 0x0FFF) XOR 0x0FFF) + 1) when it is set; 0x2005 gives 0.5 and
\* 0xAFFB gives -0.5.
C15_TemperatureValue ==
    (fn = "InputData" /\ res.err = "none" /\ res.type = TEMPERATURE) =>
        /\ ArgWord < 32768 => res.value10 = BitAnd(ArgWord, 4095)
        /\ ArgWord >= 32768 =>
             res.value10 = -(BitXor(BitAnd(ArgWord, 4095), 4095) + 1)
        /\ ArgWord = 8197 => res.value10 = 5
        /\ ArgWord = 45051 => res.value10 = -5
        /\ res.unit = "C"

C15_Witness ==
    /\ fn = "InputData"
    /\ arg.raw = <<251, 175>>
    /\ res.err = "none"
    /\ res.type = TEMPERATURE
    /\ res.value10 = -5

\* C16 as claimed: the signal type is the value of bits 15..13 of the word,
\* and decoding fails exactly when that value is no defined signal type.
C16_TagFromTopThreeBits ==
    fn = "InputData" =>
        /\ ArgWord \div 8192 \in SignalTypes =>
             (res.err = "none" /\ res.type = ArgWord \div 8192)
        /\ ArgWord \div 8192 \notin SignalTypes => res.err # "none"

\* C16 amended: the signal type is the value of bits 14..12 of the word (bit
\* 15 is the sign), and decoding fails exactly when that value is no defined
\* signal type, that is 4 or 5.
C16_TagFromBits14To12 ==
    fn = "InputData" =>
        /\ (ArgWord \div 4096) % 8 \in SignalTypes =>
             (res.err = "none" /\ res.type = (ArgWord \div 4096) % 8)
        /\ (ArgWord \div 4096) % 8 \notin SignalTypes =>
             res.err = "ValueError: not a valid InputDataSignalType"
        /\ res.err # "none" <=> (ArgWord \div 4096) % 8 \in {4, 5}

C16_Witness ==
    /\ fn = "InputData"
    /\ arg.raw = <<0, 64>>
    /\ ArgWord \div 8192 = TEMPERATURE
    /\ res.err = "ValueError: not a valid InputDataSignalType"

\* C17: LoggingCriterion(r) succeeds exactly for r in 5..120 and 129..248; in
\* 5..120 it gives the temperature difference r/10 K and no time interval,
\* in 129..248 the time interval (r-128)*20 s and no temperature difference
\* (-1 stands for None); it keeps r as raw, and set_logging_criterion writes
\* the opcode followed by that byte.
C17_LoggingCriterion ==
    /\ fn = "LoggingCriterion" =>
         /\ res.err = "none" <=> (arg.r \in 5..120 \/ arg.r \in 129..248)
         /\ arg.r \in 5..120 =>
              /\ res.temperature_difference_k10 = arg.r
              /\ res.time_interval_s = -1
         /\ arg.r \in 129..248 =>
              /\ res.time_interval_s = (arg.r - 128) * 20
              /\ res.temperature_difference_k10 = -1
         /\ res.err = "none" => res.raw = arg.r
    /\ fn = "set_logging_criterion" =>
         /\ res.criterion.raw = arg.r
         /\ Len(Writes(res.sent.io)) = 1
         /\ Writes(res.sent.io)[1].data = <<SET_LOGGING_CRITERION, arg.r>>

C17_Witness ==
    /\ fn = "set_logging_criterion"
    /\ arg.r = 248
    /\ res.criterion.time_interval_s = 2400
    /\ res.sent.err = "none"
    /\ Writes(res.sent.io)[1].data = <<SET_LOGGING_CRITERION, 248>>

\* the signal type tags of the sixteen inputs of a frame are all defined
TagsDefined(raw, offset) ==
    \A i \in 0..15 : (raw[offset + 2 * i + 2] \div 16) % 8 \in SignalTypes

\* C18: the checksum of a sensor frame is validated after every other check:
\* a current or memory frame for which the checksum-mismatch error is
\* reported passes the other checks, the 0x80 marker of a current frame and
\* the tags of the sixteen inputs.
C18_ChecksumValidatedLast ==
    (/\ call.op \in {"get_current_data", "fetch_data"}
     /\ call.err = "IOError: Checksum mismatch in header") =>
        /\ call.op = "get_current_data" =>
             /\ io[Len(io)].data[1] = 128
             /\ TagsDefined(io[Len(io)].data, 1)
        /\ call.op = "fetch_data" => TagsDefined(io[Len(io)].data, 0)

\* C19: fetch_data_range(start, length) returns exactly length decoded frames
\* in address order, or fails: the first get-data-range exchange that fails
\* (short read, checksum mismatch, decode error) is the last exchange of the
\* call, its error is the one raised, and no list of frames is returned.
C19_RangeAllOrNothing ==
    call.op = "fetch_data_range" =>
        LET n == Len(CallLog) \div 3
        IN  /\ Len(CallLog) = 3 * n
            /\ n <= call.args[2]
            /\ \A k \in 0..(n - 2) :
                 StepError(CallLog[3 * k + 2], CallLog[3 * k + 3]) = "none"
            /\ call.err = "none" =>
                 /\ n = call.args[2]
                 /\ Len(call.ret) = call.args[2]
                 /\ \A i \in 1..Len(call.ret) :
                      call.ret[i] = ((call.args[1] + i - 1) % 8192) * 10
                 /\ n > 0 =>
                      StepError(CallLog[3 * n - 1], CallLog[3 * n]) = "none"
            /\ call.err # "none" =>
                 /\ n >= 1
                 /\ call.err = StepError(CallLog[3 * n - 1], CallLog[3 * n])
                 /\ call.ret = <<>>

C19_Witness ==
    /\ call.op = "fetch_data_range"
    /\ call.args = <<8190, 5>>
    /\ call.err = "IOError: Checksum mismatch in header"
    /\ Len(Writes(CallLog)) = 3
    /\ call.ret = <<>>

====
